---- MODULE Spec2Model ----
(***************************************************************************)
(* Model of backend/app.py of the payment dashboard: the audited update    *)
(* handler update_transaction, the seed endpoint and the stats handler,    *)
(* over the two MongoDB collections `transactions` and `edits`.            *)
(*                                                                         *)
(* Two specifications share the state:                                     *)
(*   SpecAtomic  every PUT runs to completion before the next one starts   *)
(*               (one request at a time);                                  *)
(*   Spec        requests are served concurrently: each database call of   *)
(*               a handler is one atomic step, the steps of different      *)
(*               requests interleave freely (Flask serves requests on      *)
(*               threads, MongoDB serialises single operations only).      *)
(***************************************************************************)
EXTENDS Integers, Sequences, FiniteSets, TLC

(***************************************************************************)
(* Bounds and input domains.                                               *)
(***************************************************************************)
\* number of PUT requests served one after the other in SpecAtomic
MaxCalls == 2

\* Python's None: what dict.get returns for a key the document lacks
None == "None"

\* transaction ids requests are made for; TXN_MISSING never has a document
TxnIds == {"TXN100001", "TXN100002", "TXN_MISSING"}

\* values a request may carry under each key of its JSON payload
PayloadValues ==
    [ status        |-> {"Pending", "Success"},
      amount        |-> {500, 700},
      operator      |-> {"alice"},
      unknown_field |-> {"x"} ]

PayloadKeys == DOMAIN PayloadValues

\* order in which the keys of a payload are iterated (dict order = JSON order)
KeyOrder == <<"status", "amount", "payee", "channel", "remarks", "operator",
              "unknown_field">>

\* every JSON object a request may carry: a value for each key of some
\* subset of PayloadKeys
Payloads ==
    { [k \in ks |-> full[k]] :
        full \in [status : PayloadValues.status, amount : PayloadValues.amount,
                  operator : PayloadValues.operator,
                  unknown_field : PayloadValues.unknown_field],
        ks \in SUBSET PayloadKeys }

(***************************************************************************)
(* State.                                                                  *)
(***************************************************************************)
VARIABLES
    txns,     \* collection `transactions`: documents in insertion order
    edits,    \* collection `edits`: audit events in insertion order
    now,      \* the clock datetime.utcnow() reads
    ncalls,   \* PUT requests served so far (SpecAtomic)
    last,     \* the PUT request served last and its response (SpecAtomic)
    prev,     \* the PUT request served before it (SpecAtomic)
    pc,       \* per request thread: the database call it is about to make
    req,      \* per request thread: txn_id and JSON payload of its request
    existing, \* per request thread: the document its find_one returned
    chg,      \* per request thread: `changes` still to be inserted
    pre,      \* per request thread: what its update_one did (the document
              \* matched, before and after, and the `changes` it had built)
    resp,     \* per request thread: the response returned
    seeded,   \* whether the seed endpoint has been called
    st        \* the stats request: position and the values aggregated so far

vars == <<txns, edits, now, ncalls, last, prev, pc, req, existing, chg, pre,
          resp, seeded, st>>

\* request threads serving PUT /api/transactions/<txn_id>
Threads == {"t1", "t2"}

(***************************************************************************)
(* Documents.                                                              *)
(***************************************************************************)
\* start of the current UTC day, on the clock's scale
today_start == 0

\* the documents seed_data.py / seed_endpoint create
Doc(id, payee, amount, channel, status, ts) ==
    [ txn_id |-> id, payer |-> "Alice", payee |-> payee, amount |-> amount,
      channel |-> channel, status |-> status, timestamp |-> ts,
      remarks |-> "" ]

SeededDocs ==
    << Doc("TXN100001", "MerchantA", 500, "UPI", "Pending", today_start),
       Doc("TXN100002", "StoreX", 700, "NEFT", "Success", today_start - 1) >>

\* dict.get(k): the value under k, None when the key is absent
Get(doc, k) == IF k \in DOMAIN doc THEN doc[k] ELSE None

\* find_one({"txn_id": txn_id}): index of the first matching document, 0 if
\* there is none
FindOne(coll, txn_id) ==
    LET hits == {i \in 1..Len(coll) : coll[i].txn_id = txn_id}
    IN  IF hits = {} THEN 0 ELSE CHOOSE i \in hits : \A j \in hits : i <= j

\* {"$set": update} on one document
SetFields(doc, update) ==
    [k \in DOMAIN doc \cup DOMAIN update |->
        IF k \in DOMAIN update THEN update[k] ELSE doc[k]]

\* update_one({"txn_id": txn_id}, {"$set": update}): the first match only
UpdateOne(coll, txn_id, update) ==
    LET i == FindOne(coll, txn_id)
    IN  IF i = 0 THEN coll
        ELSE [coll EXCEPT ![i] = SetFields(coll[i], update)]

(***************************************************************************)
(* update_transaction: the pieces of the handler.                          *)
(***************************************************************************)
\* keys the handler copies from the payload into `update`
allowed_fields == {"status", "amount", "payee", "channel", "remarks", "operator"}

\* update = {k: v for k, v in payload.items() if k in allowed_fields}
FilterPayload(payload) ==
    [k \in DOMAIN payload \cap allowed_fields |-> payload[k]]

\* EditedBy as it would be if the handler ignored the payload's operator
EditedBy_Sentinel(payload) == "operator_unknown"

\* payload.get("operator", "operator_unknown")
EditedBy(payload) ==
    IF "operator" \in DOMAIN payload THEN payload["operator"]
    ELSE "operator_unknown"

\* ChangedKeys as it would be without the test `old != v`
ChangedKeys_All(doc, update) ==
    SelectSeq(KeyOrder, LAMBDA k : k \in DOMAIN update)

\* the keys k of `update` with existing.get(k) != v, in iteration order
ChangedKeys(doc, update) ==
    SelectSeq(KeyOrder,
              LAMBDA k : k \in DOMAIN update /\ Get(doc, k) # update[k])

\* `changes` built against the document `existing` (here doc): one event
\* per changed key; edited_at is read from the clock
\* when the event is built, the clock reading t for the first event
Changes(txn_id, payload, doc, t) ==
    LET update == FilterPayload(payload)
        keys == ChangedKeys(doc, update)
    IN  [i \in 1..Len(keys) |->
            [ txn_id |-> txn_id, field |-> keys[i],
              old_value |-> Get(doc, keys[i]),
              new_value |-> update[keys[i]],
              edited_by |-> EditedBy(payload),
              edited_at |-> t + (i - 1) ]]

\* responses: status code and body (the document, or None with an error)
Response(code, body) == [code |-> code, body |-> body]

NoRequest == [txn_id |-> None, payload |-> << >>]

\* the stats request before it has started
StatsIdle == [pc |-> "idle"]

(***************************************************************************)
(* SpecAtomic: a PUT request served from start to end with no other        *)
(* request in between.                                                     *)
(***************************************************************************)
\* UpdateOutcome as it would be with find_one ahead of the test of `update`
UpdateOutcome_ExistenceFirst(coll, log, txn_id, payload, t) ==
    LET update == FilterPayload(payload)
        i == FindOne(coll, txn_id)
        changes == Changes(txn_id, payload, coll[i], t)
        coll2 == UpdateOne(coll, txn_id, update)
    IN  IF i = 0
        THEN [txns |-> coll, edits |-> log, now |-> t,
              resp |-> Response(404, None)]
        ELSE IF DOMAIN update = {}
        THEN [txns |-> coll, edits |-> log, now |-> t,
              resp |-> Response(400, None)]
        ELSE IF Len(changes) = 0
        THEN [txns |-> coll, edits |-> log, now |-> t,
              resp |-> Response(200, coll[i])]
        ELSE [txns |-> coll2, edits |-> log \o changes,
              now |-> t + Len(changes),
              resp |-> Response(200, coll2[i])]

\* what the whole handler does to the collections and what it returns
UpdateOutcome(coll, log, txn_id, payload, t) ==
    LET update == FilterPayload(payload)
        i == FindOne(coll, txn_id)
        changes == Changes(txn_id, payload, coll[i], t)
        coll2 == UpdateOne(coll, txn_id, update)
    IN  IF DOMAIN update = {}
        THEN [txns |-> coll, edits |-> log, now |-> t,
              resp |-> Response(400, None)]
        ELSE IF i = 0
        THEN [txns |-> coll, edits |-> log, now |-> t,
              resp |-> Response(404, None)]
        ELSE IF Len(changes) = 0
        THEN [txns |-> coll, edits |-> log, now |-> t,
              resp |-> Response(200, coll[FindOne(coll, txn_id)])]
        ELSE [txns |-> coll2, edits |-> log \o changes,
              now |-> t + Len(changes),
              resp |-> Response(200, coll2[FindOne(coll2, txn_id)])]

update_transaction(txn_id, payload) ==
    LET out == UpdateOutcome(txns, edits, txn_id, payload, now)
    IN  /\ ncalls < MaxCalls
        /\ txns' = out.txns
        /\ edits' = out.edits
        /\ now' = out.now
        /\ ncalls' = ncalls + 1
        /\ last' = [txn_id |-> txn_id, payload |-> payload,
                    txns |-> txns, edits |-> edits, resp |-> out.resp]
        /\ prev' = [txn_id |-> last.txn_id, payload |-> last.payload]
        /\ UNCHANGED <<pc, req, existing, chg, pre, resp, seeded, st>>

InitAtomic ==
    /\ txns = SeededDocs
    /\ edits = << >>
    /\ now = today_start + 1
    /\ ncalls = 0
    /\ last = [txn_id |-> None, payload |-> << >>, txns |-> SeededDocs,
               edits |-> << >>, resp |-> Response(0, None)]
    /\ prev = NoRequest
    /\ pc = [t \in Threads |-> "idle"]
    /\ req = [t \in Threads |-> NoRequest]
    /\ existing = [t \in Threads |-> << >>]
    /\ chg = [t \in Threads |-> << >>]
    /\ pre = [t \in Threads |-> << >>]
    /\ resp = [t \in Threads |-> Response(0, None)]
    /\ seeded = FALSE
    /\ st = StatsIdle

NextAtomic ==
    \E txn_id \in TxnIds, payload \in Payloads : update_transaction(txn_id, payload)

SpecAtomic == InitAtomic /\ [][NextAtomic]_vars

(***************************************************************************)
(* Vocabulary of the properties.                                           *)
(***************************************************************************)
\* the five mutable fields of a transaction record
MutableFields == {"status", "amount", "payee", "channel", "remarks"}

\* the fields a transaction record is created with
RecordFields == {"txn_id", "payer", "payee", "amount", "channel", "status",
                 "timestamp", "remarks"}

\* the last PUT request of SpecAtomic: whether one was served, the record it
\* addressed before and after, and the events it appended
Served == ncalls > 0
LastIdx == FindOne(last.txns, last.txn_id)
LastExisting == Served /\ LastIdx # 0
LastBefore == last.txns[LastIdx]
LastAfter == txns[FindOne(txns, last.txn_id)]
LastAppended == {j \in 1..Len(edits) : j > Len(last.edits)}
LastSubmitted == MutableFields \cap DOMAIN last.payload
LastUntouched == txns = last.txns /\ Len(edits) = Len(last.edits)

(***************************************************************************)
(* Properties of SpecAtomic.                                               *)
(***************************************************************************)
\* C1 (allow-list): no key outside the five mutable fields is ever written
\* as a field of a transaction record or is the `field` of an audit event.
C1_AllowList ==
    /\ \A i \in 1..Len(txns) :
          /\ DOMAIN txns[i] = RecordFields
          /\ \A k \in RecordFields \ MutableFields : txns[i][k] = SeededDocs[i][k]
    /\ \A j \in 1..Len(edits) : edits[j].field \in MutableFields

\* C2 (diff accuracy): a call that changes mutable field F of an existing
\* record from A to a different B appends exactly one event with field F,
\* that event has old_value A, new_value B and the call's operator (or the
\* default sentinel) as edited_by, and the record's F is B afterwards.
C2_DiffAccuracy ==
    LastExisting =>
        \A F \in LastSubmitted :
            LastBefore[F] # last.payload[F] =>
                /\ Cardinality({j \in LastAppended : edits[j].field = F}) = 1
                /\ \A j \in LastAppended :
                      edits[j].field = F =>
                          /\ edits[j].txn_id = last.txn_id
                          /\ edits[j].old_value = LastBefore[F]
                          /\ edits[j].new_value = last.payload[F]
                          /\ edits[j].edited_by =
                                IF "operator" \in DOMAIN last.payload
                                THEN last.payload["operator"]
                                ELSE "operator_unknown"
                /\ LastAfter[F] = last.payload[F]

\* C2 witness: a call that follows earlier edits changed a mutable field
\* and supplied no operator.
C2_Witness ==
    /\ LastExisting
    /\ \E F \in LastSubmitted : LastBefore[F] # last.payload[F]
    /\ "operator" \notin DOMAIN last.payload
    /\ Len(last.edits) > 0

\* C3 (no-op suppression): a call on an existing record whose every
\* submitted field value equals the record's current value appends no
\* event, writes nothing and returns the unchanged record with success.
C3_NoOpSuppression ==
    ( /\ LastExisting
      /\ LastSubmitted # {}
      /\ \A F \in LastSubmitted : LastBefore[F] = last.payload[F] )
    => /\ LastUntouched
       /\ last.resp = Response(200, LastBefore)

C5_EmptyUpdateRejected ==
    (LastExisting /\ LastSubmitted = {})
    => /\ last.resp.code = 400
       /\ LastUntouched

\* C9 (existence check first): a call on a transaction_id without a record
\* fails with NotFound (404) for every field map and writes nothing.
C9_NotFoundFirst ==
    (Served /\ LastIdx = 0)
    => /\ last.resp.code = 404
       /\ LastUntouched

\* C9 as amended: a call on a transaction_id without a record writes nothing
\* and fails: with NotFound when the field map has a mutable field, with
\* InvalidRequest when it has neither a mutable field nor the operator key.
C9_EmptyCheckFirst ==
    (Served /\ LastIdx = 0)
    => /\ LastUntouched
       /\ last.resp.code \in {400, 404}
       /\ last.resp.body = None
       /\ LastSubmitted # {} => last.resp.code = 404
       /\ DOMAIN last.payload \cap (MutableFields \cup {"operator"}) = {}
             => last.resp.code = 400

\* C9 witness: a field map without mutable fields sent for a missing id.
C9_Witness ==
    /\ Served
    /\ LastIdx = 0
    /\ DOMAIN last.payload = {"unknown_field"}
    /\ last.resp.code = 400

(***************************************************************************)
(* Spec: concurrent requests.  A PUT request is the steps Begin, Find,     *)
(* Diff, Update, Insert (once per change) and Return; every step is one    *)
(* database call (or the local code before the first one).                 *)
(***************************************************************************)
\* lines 69-77: parse the payload, filter it, reject an empty `update`
Begin(t, txn_id, payload) ==
    /\ pc[t] = "idle"
    /\ req' = [req EXCEPT ![t] = [txn_id |-> txn_id, payload |-> payload]]
    /\ IF DOMAIN FilterPayload(payload) = {}
       THEN /\ resp' = [resp EXCEPT ![t] = Response(400, None)]
            /\ pc' = [pc EXCEPT ![t] = "done"]
       ELSE /\ pc' = [pc EXCEPT ![t] = "find"]
            /\ UNCHANGED resp
    /\ UNCHANGED <<txns, edits, now, ncalls, last, prev, existing, chg, pre,
                   seeded, st>>

\* lines 80-82: existing = txns.find_one(...); 404 when there is none
Find(t) ==
    /\ pc[t] = "find"
    /\ LET i == FindOne(txns, req[t].txn_id)
       IN  IF i = 0
           THEN /\ resp' = [resp EXCEPT ![t] = Response(404, None)]
                /\ pc' = [pc EXCEPT ![t] = "done"]
                /\ UNCHANGED existing
           ELSE /\ existing' = [existing EXCEPT ![t] = txns[i]]
                /\ pc' = [pc EXCEPT ![t] = "diff"]
                /\ UNCHANGED resp
    /\ UNCHANGED <<txns, edits, now, ncalls, last, prev, req, chg, pre,
                   seeded, st>>

\* lines 85-98: build `changes` against `existing`, reading the clock
Diff(t) ==
    /\ pc[t] = "diff"
    /\ LET changes == Changes(req[t].txn_id, req[t].payload, existing[t], now)
       IN  /\ chg' = [chg EXCEPT ![t] = changes]
           /\ now' = now + Len(changes)
           /\ pc' = [pc EXCEPT ![t] = IF Len(changes) > 0 THEN "update"
                                      ELSE "return"]
    /\ UNCHANGED <<txns, edits, ncalls, last, prev, req, existing, pre, resp,
                   seeded, st>>

\* line 100: txns.update_one({"txn_id": txn_id}, {"$set": update})
Update(t) ==
    /\ pc[t] = "update"
    /\ LET i == FindOne(txns, req[t].txn_id)
           coll2 == UpdateOne(txns, req[t].txn_id, FilterPayload(req[t].payload))
       IN  /\ txns' = coll2
           /\ pre' = [pre EXCEPT ![t] = [before |-> txns[i], after |-> coll2[i],
                                         changes |-> chg[t]]]
    /\ pc' = [pc EXCEPT ![t] = "insert"]
    /\ UNCHANGED <<edits, now, ncalls, last, prev, req, existing, chg, resp,
                   seeded, st>>

\* lines 102-103: edits.insert_one(c), one call per change
Insert(t) ==
    /\ pc[t] = "insert"
    /\ edits' = Append(edits, Head(chg[t]))
    /\ chg' = [chg EXCEPT ![t] = Tail(chg[t])]
    /\ pc' = [pc EXCEPT ![t] = IF Len(chg[t]) > 1 THEN "insert" ELSE "return"]
    /\ UNCHANGED <<txns, now, ncalls, last, prev, req, existing, pre, resp,
                   seeded, st>>

\* lines 106-107: updated = txns.find_one(...); return it
Return(t) ==
    /\ pc[t] = "return"
    /\ LET i == FindOne(txns, req[t].txn_id)
       IN  resp' = [resp EXCEPT ![t] = Response(200, txns[i])]
    /\ pc' = [pc EXCEPT ![t] = "done"]
    /\ UNCHANGED <<txns, edits, now, ncalls, last, prev, req, existing, chg,
                   pre, seeded, st>>

(***************************************************************************)
(* seed_endpoint, called once with {"count": 1}: one document of random    *)
(* content is inserted.                                                    *)
(***************************************************************************)
\* the random choices of seed_endpoint the model draws from
SeedTxnIds == {"TXN100003"}
SeedChannels == {"UPI", "NEFT"}
SeedAmounts == {700}

seed_endpoint(txn_id, channel, amount) ==
    /\ ~seeded
    /\ seeded' = TRUE
    /\ txns' = Append(txns, Doc(txn_id, "MerchantA", amount, channel, "Pending", now))
    /\ now' = now + 1
    /\ UNCHANGED <<edits, ncalls, last, prev, pc, req, existing, chg, pre,
                   resp, st>>

(***************************************************************************)
(* stats: three aggregations over `transactions` and one query on `edits`, *)
(* each a separate database call.                                          *)
(***************************************************************************)
\* number of recent edits the handler returns
RecentLimit == 10

\* {"$match": {"timestamp": {"$gte": today_start}}}
Qualifying(coll) == {i \in 1..Len(coll) : coll[i].timestamp >= today_start}

RECURSIVE SumAmount(_, _)
\* {"$sum": "$amount"} over the documents at the indices S
SumAmount(coll, S) ==
    IF S = {} THEN 0
    ELSE LET i == CHOOSE j \in S : TRUE
         IN  coll[i].amount + SumAmount(coll, S \ {i})

\* pipeline_total: one group over all qualifying documents; no group, hence
\* the defaults 0 and 0.0, when none qualifies
AggregateTotal(coll) ==
    [ total_count |-> Cardinality(Qualifying(coll)),
      total_volume |-> SumAmount(coll, Qualifying(coll)) ]

\* pipeline_channel: one group per channel among the qualifying documents
AggregateChannel(coll) ==
    LET q == Qualifying(coll)
    IN  [c \in {coll[i].channel : i \in q} |->
            LET g == {i \in q : coll[i].channel = c}
            IN  [count |-> Cardinality(g), volume |-> SumAmount(coll, g)]]

\* pipeline_status: one group per status among the qualifying documents
AggregateStatus(coll) ==
    LET q == Qualifying(coll)
    IN  [s \in {coll[i].status : i \in q} |->
            [count |-> Cardinality({i \in q : coll[i].status = s})]]

\* datetime.isoformat() + "Z"
IsoFormat(t) == <<"T", t, "Z">>

RECURSIVE SortByEditedAtDesc(_, _)
\* the events at the indices S, latest edited_at first
SortByEditedAtDesc(log, S) ==
    IF S = {} THEN << >>
    ELSE LET i == CHOOSE j \in S : \A k \in S :
                      \/ log[j].edited_at > log[k].edited_at
                      \/ (log[j].edited_at = log[k].edited_at /\ j <= k)
         IN  <<log[i]>> \o SortByEditedAtDesc(log, S \ {i})

\* edits.find().sort("edited_at", -1).limit(10), each rendered for JSON
RecentEdits(log) ==
    LET sorted == SortByEditedAtDesc(log, 1..Len(log))
        n == IF Len(sorted) < RecentLimit THEN Len(sorted) ELSE RecentLimit
    IN  [i \in 1..n |-> [sorted[i] EXCEPT !.edited_at = IsoFormat(@)]]

StatsTotal ==
    /\ st.pc = "idle"
    /\ st' = [pc |-> "channel"] @@ AggregateTotal(txns)
    /\ UNCHANGED <<txns, edits, now, ncalls, last, prev, pc, req, existing,
                   chg, pre, resp, seeded>>

StatsChannel ==
    /\ st.pc = "channel"
    /\ st' = [pc |-> "status", channel_data |-> AggregateChannel(txns)] @@ st
    /\ UNCHANGED <<txns, edits, now, ncalls, last, prev, pc, req, existing,
                   chg, pre, resp, seeded>>

StatsStatus ==
    /\ st.pc = "status"
    /\ st' = [pc |-> "recent", status_data |-> AggregateStatus(txns)] @@ st
    /\ UNCHANGED <<txns, edits, now, ncalls, last, prev, pc, req, existing,
                   chg, pre, resp, seeded>>

StatsRecent ==
    /\ st.pc = "recent"
    /\ st' = [pc |-> "done", recent_edits |-> RecentEdits(edits)] @@ st
    /\ UNCHANGED <<txns, edits, now, ncalls, last, prev, pc, req, existing,
                   chg, pre, resp, seeded>>

stats == StatsTotal \/ StatsChannel \/ StatsStatus \/ StatsRecent

Init == InitAtomic

\* the concurrent requests: both on the same record or on none, their
\* payloads with mutable fields only
ConcurrentTxnIds == {"TXN100001", "TXN_MISSING"}
ConcurrentPayloads == {p \in Payloads : DOMAIN p \subseteq MutableFields}

Next ==
    \/ \E t \in Threads, txn_id \in ConcurrentTxnIds,
           payload \in ConcurrentPayloads :
          Begin(t, txn_id, payload)
    \/ \E t \in Threads : Find(t)
    \/ \E t \in Threads : Diff(t)
    \/ \E t \in Threads : Update(t)
    \/ \E t \in Threads : Insert(t)
    \/ \E t \in Threads : Return(t)
    \/ \E txn_id \in SeedTxnIds, channel \in SeedChannels, amount \in SeedAmounts :
          seed_endpoint(txn_id, channel, amount)
    \/ stats

Spec == Init /\ [][Next]_vars

(***************************************************************************)
(* Properties of Spec (concurrent requests).                               *)
(***************************************************************************)
\* the threads whose update_one has run, and what each of them logged
Wrote(t) == DOMAIN pre[t] # {}
LoggedFields(t) == {pre[t].changes[i].field : i \in 1..Len(pre[t].changes)}
WrittenFields(t) ==
    {k \in DOMAIN pre[t].after : Get(pre[t].before, k) # pre[t].after[k]}

\* C6 (lost-update prevention): every audit event of a call carries as
\* old_value the value the record held for that field immediately before
\* that call's repository write.
C6_NoStaleDiff ==
    \A t \in Threads :
        Wrote(t) =>
            \A i \in 1..Len(pre[t].changes) :
                pre[t].changes[i].old_value =
                    Get(pre[t].before, pre[t].changes[i].field)

\* C7 (audit completeness): under any interleaving, the fields whose stored
\* value a call's write changes are exactly the fields it logs an audit
\* event for.
C7_EventIffChanged ==
    \A t \in Threads : Wrote(t) => WrittenFields(t) = LoggedFields(t)

RECURSIVE SumGroups(_, _, _)
\* the sum of field f over the groups of an aggregation result
SumGroups(groups, S, f) ==
    IF S = {} THEN 0
    ELSE LET c == CHOOSE x \in S : TRUE
         IN  groups[c][f] + SumGroups(groups, S \ {c}, f)

\* C8 (aggregation consistency): in every stats snapshot returned the
\* per-channel counts sum to total_count and the per-channel volumes sum to
\* total_volume.
C8_SnapshotConsistent ==
    st.pc = "done" =>
        /\ SumGroups(st.channel_data, DOMAIN st.channel_data, "count")
              = st.total_count
        /\ SumGroups(st.channel_data, DOMAIN st.channel_data, "volume")
              = st.total_volume
        /\ SumGroups(st.status_data, DOMAIN st.status_data, "count")
              = st.total_count

\* the events of one transaction, in append order, have non-decreasing
\* edited_at
MonotonicPerTxn ==
    \A i, j \in 1..Len(edits) :
        (i < j /\ edits[i].txn_id = edits[j].txn_id)
            => edits[i].edited_at <= edits[j].edited_at

\* C10 (audit ordering): audit events are only ever appended, and per
\* transaction_id their edited_at values are non-decreasing in append order.
C10_AuditOrdering ==
    /\ [][/\ Len(edits') >= Len(edits)
          /\ \A i \in 1..Len(edits) : edits'[i] = edits[i]]_vars
    /\ []MonotonicPerTxn

====
